---- MODULE Spec2Model ----
(***************************************************************************)
(* Administrative screens of the canteen application over the hosted      *)
(* store: the inventory screen (AdminInventorySection.jsx), opened by     *)
(* several administrators, and the menu screen (AdminMenuSection.jsx).    *)
(* The store holds the tables menu_items and inventory_logs; every        *)
(* request of a screen is applied by the store in one step, some time     *)
(* after the handler has sent it and some time before the handler         *)
(* resumes after its await.                                               *)
(*                                                                         *)
(* Specifications:                                                         *)
(*   Spec          one administrator on the inventory screen, every        *)
(*                 gesture and every outcome of a request;                 *)
(*   SpecMenu      one administrator on the menu screen, likewise;         *)
(*   SpecRace      two administrators on the inventory screen whose        *)
(*                 requests all succeed, with the amounts -5 and -3        *)
(*                 against a stock of 10;                                  *)
(*   SpecAll       two administrators on the inventory screen and one on   *)
(*                 the menu screen editing rows, requests all succeed;     *)
(*   SpecLowStock  the low-stock alert list over arbitrary item lists;    *)
(*   SpecOrders    one administrator on the order screen                   *)
(*                 (AdminOrderSection.jsx) over the table orders,          *)
(*                 requests all succeed;                                   *)
(*   SpecOrdersAll the same screen with every outcome of a request.        *)
(***************************************************************************)
EXTENDS Integers, Sequences, FiniteSets, TLC

\* ------------------------------------------------------------------ bounds
\* MaxItems: ids the store hands out; MaxStock: largest stock written;
\* MaxPending: calls of a screen waiting at their await; MaxFetch: loads of a
\* screen in flight; MaxWrites: write requests the store applies in a run;
\* MaxListLen: length of the item lists of SpecLowStock; MaxOrderFetch:
\* fetchOrders calls of a screen in flight; MaxEvents: change notifications of
\* a screen waiting for their callback.
MaxItems == 2
MaxStock == 10
MaxPending == 1
MaxFetch == 1
MaxWrites == 2
MaxListLen == 4
MaxOrderFetch == 2
MaxEvents == 1

\* --------------------------------------------------------------- constants
LowStockThreshold == 10
LogLimit == 20

Admins == {"a1", "a2"}
InitStocks == {3}

\* Texts typed into the "Adjustment Amount" input, the "Reason" input and
\* the menu form's "Stock Quantity" and "Name" inputs.
AmountTexts == {"-3", "", "3"}
ReasonTexts == {"", " ", "Restocking"}
StockTexts == {"", "-1", "0", "3"}
NameTexts == {"", "Tea"}

\* ----------------------------------------------------------------- helpers
NULL == [id |-> 0, stock_quantity |-> 0]

IsNull(item) == item.id = 0

\* JavaScript parseInt on the texts above; nan marks NaN.
ParseInt(text) ==
    CASE text = "-5" -> [nan |-> FALSE, v |-> -5]
      [] text = "-3" -> [nan |-> FALSE, v |-> -3]
      [] text = "-1" -> [nan |-> FALSE, v |-> -1]
      [] text = "0" -> [nan |-> FALSE, v |-> 0]
      [] text = "3" -> [nan |-> FALSE, v |-> 3]
      [] OTHER -> [nan |-> TRUE, v |-> 0]

\* parseInt(e.target.value) || 0 : NaN and 0 are falsy.
ParseAmount(text) ==
    LET n == ParseInt(text) IN IF n.nan \/ n.v = 0 THEN 0 ELSE n.v

\* String.prototype.trim on the reason texts.
Trim(text) == IF text = " " THEN "" ELSE text

\* !adjustmentReason : only the empty string is falsy.
ReasonMissing(reason) == reason = ""

NegativeStockLoose(newStock) == newStock < -3

NegativeStock(newStock) == newStock < 0

IsAvailableAtZero(newStock) == newStock >= 0

IsAvailable(newStock) == newStock > 0

Remove(seq, i) == [k \in 1..(Len(seq) - 1) |-> IF k < i THEN seq[k] ELSE seq[k + 1]]

\* The rows of menu_items as the inventory screen selects them
\* (id, stock_quantity), in every order the store may return for
\* .order('stock_quantity', ascending).
ItemRows(table) == {[id |-> i, stock_quantity |-> table[i].stock_quantity] : i \in DOMAIN table}

OrderedByStock(table) ==
    LET n == Cardinality(DOMAIN table)
    IN {q \in [1..n -> ItemRows(table)] :
            /\ \A a, b \in 1..n : a < b => /\ q[a].id # q[b].id
                                            /\ q[a].stock_quantity <= q[b].stock_quantity}

\* menuItems.filter(item => item.stock_quantity <= 10): the items are visited
\* in list order and the ones passing the test are kept.
RECURSIVE Filter(_, _)
Filter(list, k) ==
    IF k > Len(list) THEN <<>>
    ELSE IF list[k].stock_quantity <= LowStockThreshold
         THEN <<list[k]>> \o Filter(list, k + 1)
         ELSE Filter(list, k + 1)

LowStockStrict(list) ==
    SelectSeq(list, LAMBDA item : item.stock_quantity < LowStockThreshold)

LowStock(list) == Filter(list, 1)

\* inventory_logs newest first, at most LogLimit of them.
RecentLogs(logs) ==
    LET n == Len(logs)
        m == IF n < LogLimit THEN n ELSE LogLimit
    IN [k \in 1..m |-> logs[n + 1 - k]]

\* ------------------------------------------------------------------- state
\* Every variable of a screen is a function of the screens of that kind that
\* are open; which screens are open is fixed by the initial state.
VARIABLES
    menu_items,         \* store: id -> [stock_quantity, is_available]
    nextId,             \* store: id of the next inserted menu_items row
    writes,             \* store: write requests applied to menu_items so far
    inventory_logs,     \* store: sequence of ledger entries, oldest first
    toast,              \* text of the notification the last step raised, or "none"
    menuItems,          \* inventory screen: loaded item list
    inventoryLogs,      \* inventory screen: loaded ledger entries
    selectedItem,       \* inventory screen: item snapshot of the dialog
    adjustmentAmount,
    adjustmentReason,
    isDialogOpen,
    adjCalls,           \* inventory screen: handleAdjustment calls at their await
    invFetch,           \* inventory screen: fetchData calls in flight
    lowStockItems,      \* inventory screen: the alert list of the screens rendered
    catalog,            \* menu screen: menuItems, the loaded rows by id
    loading,            \* menu screen
    menuDialogOpen,     \* menu screen: isDialogOpen
    editingItem,        \* menu screen
    formData,           \* menu screen: [name, stock_quantity]
    menuCalls,          \* menu screen: handleSubmit / handleDelete calls at their await
    menuFetch,          \* menu screen: fetchMenuItems calls in flight
    orders_table,       \* store: orders, id -> [status]
    orders,             \* order screen: the loaded order list, newest first
    ordersLoading,      \* order screen: loading
    orderFetches,       \* order screen: fetchOrders calls at their await, oldest first
    orderCalls,         \* order screen: updateOrderStatus calls at their await
    orderEvents         \* order screen: change notifications of the channel not yet handled

storeVars == <<menu_items, nextId, writes, inventory_logs>>
formVars == <<selectedItem, adjustmentAmount, adjustmentReason, isDialogOpen>>
invVars == <<menuItems, inventoryLogs, formVars, adjCalls, invFetch, lowStockItems>>
menuFormVars == <<menuDialogOpen, editingItem, formData>>
menuVars == <<catalog, loading, menuFormVars, menuCalls, menuFetch>>

orderVars == <<orders_table, orders, ordersLoading, orderFetches, orderCalls, orderEvents>>

vars == <<storeVars, toast, invVars, menuVars, orderVars>>

OpenAdmins == DOMAIN menuItems
OpenMenus == DOMAIN catalog
OpenOrders == DOMAIN orders

\* useState initial values of formData, and resetForm.
EmptyForm == [name |-> "", stock_quantity |-> [nan |-> FALSE, v |-> 0]]

InitStore(stock) ==
    /\ menu_items = (1 :> [stock_quantity |-> stock, is_available |-> stock > 0])
    /\ nextId = 2
    /\ writes = 0
    /\ inventory_logs = <<>>
    /\ toast = "none"

\* The inventory screens of `admins` have just been mounted.
InitInventory(admins) ==
    /\ menuItems = [s \in admins |-> <<>>]
    /\ inventoryLogs = [s \in admins |-> <<>>]
    /\ selectedItem = [s \in admins |-> NULL]
    /\ adjustmentAmount = [s \in admins |-> 0]
    /\ adjustmentReason = [s \in admins |-> ""]
    /\ isDialogOpen = [s \in admins |-> FALSE]
    /\ adjCalls = [s \in admins |-> <<>>]
    /\ invFetch = [s \in admins |-> 1]
    /\ lowStockItems = <<>>

\* The menu screens of `menus` have just been mounted.
InitMenu(menus) ==
    /\ catalog = [m \in menus |-> <<>>]
    /\ loading = [m \in menus |-> TRUE]
    /\ menuDialogOpen = [m \in menus |-> FALSE]
    /\ editingItem = [m \in menus |-> NULL]
    /\ formData = [m \in menus |-> EmptyForm]
    /\ menuCalls = [m \in menus |-> <<>>]
    /\ menuFetch = [m \in menus |-> 1]

\* The order screens of `screens` have just been mounted: the effect has
\* called fetchOrders and subscribed to the changes of the orders table.
InitOrders(screens) ==
    /\ orders_table = (1 :> [status |-> "pending"])
    /\ orders = [o \in screens |-> <<>>]
    /\ ordersLoading = [o \in screens |-> TRUE]
    /\ orderFetches = [o \in screens |-> <<[st |-> "sent", data |-> <<>>]>>]
    /\ orderCalls = [o \in screens |-> <<>>]
    /\ orderEvents = [o \in screens |-> 0]

Init ==
    /\ \E stock \in InitStocks : InitStore(stock)
    /\ InitInventory({"a1"})
    /\ InitMenu({})
    /\ InitOrders({})

\* ------------------------------------------------------- inventory screen
\* The dialog of the card of selectedItem is rendered.
DialogShown(s) ==
    /\ isDialogOpen[s]
    /\ \E k \in 1..Len(menuItems[s]) : menuItems[s][k].id = selectedItem[s].id

\* fetchData resolved: both reads succeeded. The reads are taken when the
\* response arrives.
FetchDataOk(s) ==
    /\ invFetch[s] > 0
    /\ \E q \in OrderedByStock(menu_items) : menuItems' = [menuItems EXCEPT ![s] = q]
    /\ inventoryLogs' = [inventoryLogs EXCEPT ![s] = RecentLogs(inventory_logs)]
    /\ invFetch' = [invFetch EXCEPT ![s] = @ - 1]
    /\ UNCHANGED <<orderVars, menuVars, lowStockItems, storeVars, formVars, adjCalls>>
    /\ toast' = "none"

\* fetchData: one of the reads returned an error.
FetchDataError(s) ==
    /\ invFetch[s] > 0
    /\ toast' = "Failed to load inventory data"
    /\ invFetch' = [invFetch EXCEPT ![s] = @ - 1]
    /\ UNCHANGED <<orderVars, menuVars, lowStockItems, storeVars, formVars, adjCalls, menuItems, inventoryLogs>>

\* Click on "Adjust Stock" of the k-th card.
OpenAdjust(s, k) ==
    /\ ~DialogShown(s)
    /\ k \in 1..Len(menuItems[s])
    /\ selectedItem' = [selectedItem EXCEPT ![s] = menuItems[s][k]]
    /\ isDialogOpen' = [isDialogOpen EXCEPT ![s] = TRUE]
    /\ UNCHANGED <<orderVars, menuVars, lowStockItems, storeVars, menuItems, inventoryLogs, adjustmentAmount,
                   adjustmentReason, adjCalls, invFetch>>
    /\ toast' = "none"

\* The dialog is dismissed (Escape, overlay, close button): onOpenChange(false).
DismissDialog(s) ==
    /\ DialogShown(s)
    /\ isDialogOpen' = [isDialogOpen EXCEPT ![s] = FALSE]
    /\ selectedItem' = [selectedItem EXCEPT ![s] = NULL]
    /\ adjustmentAmount' = [adjustmentAmount EXCEPT ![s] = 0]
    /\ adjustmentReason' = [adjustmentReason EXCEPT ![s] = ""]
    /\ UNCHANGED <<orderVars, menuVars, lowStockItems, storeVars, menuItems, inventoryLogs, adjCalls, invFetch>>
    /\ toast' = "none"

\* Click on "Cancel".
CancelDialog(s) ==
    /\ DialogShown(s)
    /\ isDialogOpen' = [isDialogOpen EXCEPT ![s] = FALSE]
    /\ UNCHANGED <<orderVars, menuVars, lowStockItems, storeVars, menuItems, inventoryLogs, selectedItem, adjustmentAmount,
                   adjustmentReason, adjCalls, invFetch>>
    /\ toast' = "none"

TypeAmount(s, text) ==
    /\ DialogShown(s)
    /\ adjustmentAmount' = [adjustmentAmount EXCEPT ![s] = ParseAmount(text)]
    /\ UNCHANGED <<orderVars, menuVars, lowStockItems, storeVars, menuItems, inventoryLogs, selectedItem, isDialogOpen,
                   adjustmentReason, adjCalls, invFetch>>
    /\ toast' = "none"

TypeReason(s, text) ==
    /\ DialogShown(s)
    /\ adjustmentReason' = [adjustmentReason EXCEPT ![s] = text]
    /\ UNCHANGED <<orderVars, menuVars, lowStockItems, storeVars, menuItems, inventoryLogs, selectedItem, isDialogOpen,
                   adjustmentAmount, adjCalls, invFetch>>
    /\ toast' = "none"

\* A handler that tests the resulting stock before the reason.
handleAdjustmentStockFirst(s) ==
    LET newStock == selectedItem[s].stock_quantity + adjustmentAmount[s]
    IN /\ DialogShown(s)
       /\ UNCHANGED <<orderVars, menuVars, lowStockItems, storeVars, menuItems, inventoryLogs, formVars, invFetch>>
       /\ IF ~IsNull(selectedItem[s]) /\ NegativeStock(newStock)
          THEN /\ toast' = "Stock quantity cannot be negative"
               /\ UNCHANGED adjCalls
          ELSE IF IsNull(selectedItem[s]) \/ ReasonMissing(adjustmentReason[s])
          THEN /\ toast' = "Please provide a reason for the adjustment"
               /\ UNCHANGED adjCalls
          ELSE /\ newStock <= MaxStock
               /\ Len(adjCalls[s]) < MaxPending
               /\ adjCalls' = [adjCalls EXCEPT ![s] = Append(@,
                      [item |-> selectedItem[s], amount |-> adjustmentAmount[s],
                       reason |-> adjustmentReason[s], newStock |-> newStock, st |-> "sent"])]
               /\ toast' = "none"

\* Click on "Update Stock": handleAdjustment up to its await.
handleAdjustment(s) ==
    LET newStock == selectedItem[s].stock_quantity + adjustmentAmount[s]
    IN /\ DialogShown(s)
       /\ UNCHANGED <<orderVars, menuVars, lowStockItems, storeVars, menuItems, inventoryLogs, formVars, invFetch>>
       /\ IF IsNull(selectedItem[s]) \/ ReasonMissing(adjustmentReason[s])
          THEN /\ toast' = "Please provide a reason for the adjustment"
               /\ UNCHANGED adjCalls
          ELSE IF NegativeStock(newStock)
          THEN /\ toast' = "Stock quantity cannot be negative"
               /\ UNCHANGED adjCalls
          ELSE /\ newStock <= MaxStock
               /\ Len(adjCalls[s]) < MaxPending
               /\ adjCalls' = [adjCalls EXCEPT ![s] = Append(@,
                      [item |-> selectedItem[s], amount |-> adjustmentAmount[s],
                       reason |-> adjustmentReason[s], newStock |-> newStock,
                       st |-> "sent"])]
               /\ toast' = "none"

\* The store applies the update of call i: .update({...}).eq('id', item.id).
\* No row matches when the item was deleted; the request still succeeds.
UpdateStock(table, id, newStock) ==
    IF id \in DOMAIN table
    THEN [table EXCEPT ![id] = [stock_quantity |-> newStock,
                                is_available |-> IsAvailable(newStock)]]
    ELSE table

StoreAppliesAdjustment(s, i) ==
    /\ i \in 1..Len(adjCalls[s])
    /\ adjCalls[s][i].st = "sent"
    /\ writes < MaxWrites
    /\ writes' = writes + 1
    /\ menu_items' = UpdateStock(menu_items, adjCalls[s][i].item.id, adjCalls[s][i].newStock)
    /\ adjCalls' = [adjCalls EXCEPT ![s][i].st = "ok"]
    /\ UNCHANGED <<orderVars, menuVars, lowStockItems, nextId, inventory_logs, menuItems, inventoryLogs, formVars, invFetch>>
    /\ toast' = "none"

\* The store (or the network) rejects the update of call i.
StoreRejectsAdjustment(s, i) ==
    /\ i \in 1..Len(adjCalls[s])
    /\ adjCalls[s][i].st = "sent"
    /\ adjCalls' = [adjCalls EXCEPT ![s][i].st = "error"]
    /\ UNCHANGED <<orderVars, menuVars, lowStockItems, storeVars, menuItems, inventoryLogs, formVars, invFetch>>
    /\ toast' = "none"

\* handleAdjustment after its await, no error.
AdjustmentResolved(s, i) ==
    /\ i \in 1..Len(adjCalls[s])
    /\ adjCalls[s][i].st = "ok"
    /\ invFetch[s] < MaxFetch
    /\ toast' = "Stock has been updated"
    /\ isDialogOpen' = [isDialogOpen EXCEPT ![s] = FALSE]
    /\ selectedItem' = [selectedItem EXCEPT ![s] = NULL]
    /\ adjustmentAmount' = [adjustmentAmount EXCEPT ![s] = 0]
    /\ adjustmentReason' = [adjustmentReason EXCEPT ![s] = ""]
    /\ invFetch' = [invFetch EXCEPT ![s] = @ + 1]
    /\ adjCalls' = [adjCalls EXCEPT ![s] = Remove(@, i)]
    /\ UNCHANGED <<orderVars, menuVars, lowStockItems, storeVars, menuItems, inventoryLogs>>

\* A catch block that also closes the dialog and clears the form.
AdjustmentFailedResets(s, i) ==
    /\ i \in 1..Len(adjCalls[s])
    /\ adjCalls[s][i].st = "error"
    /\ toast' = "Failed to update stock"
    /\ isDialogOpen' = [isDialogOpen EXCEPT ![s] = FALSE]
    /\ selectedItem' = [selectedItem EXCEPT ![s] = NULL]
    /\ adjustmentAmount' = [adjustmentAmount EXCEPT ![s] = 0]
    /\ adjustmentReason' = [adjustmentReason EXCEPT ![s] = ""]
    /\ adjCalls' = [adjCalls EXCEPT ![s] = Remove(@, i)]
    /\ UNCHANGED <<orderVars, menuVars, lowStockItems, storeVars, menuItems, inventoryLogs, invFetch>>

\* handleAdjustment after its await, error thrown and caught.
AdjustmentFailed(s, i) ==
    /\ i \in 1..Len(adjCalls[s])
    /\ adjCalls[s][i].st = "error"
    /\ toast' = "Failed to update stock"
    /\ adjCalls' = [adjCalls EXCEPT ![s] = Remove(@, i)]
    /\ UNCHANGED <<orderVars, menuVars, lowStockItems, storeVars, menuItems, inventoryLogs, formVars, invFetch>>

\* The screen of s is rendered: lowStockItems is computed from menuItems.
Render(s) ==
    /\ lowStockItems' = [x \in DOMAIN lowStockItems \cup {s} |-> LowStock(menuItems[s])]
    /\ toast' = "none"
    /\ UNCHANGED <<orderVars, menuVars, storeVars, menuItems, inventoryLogs, formVars, adjCalls, invFetch>>

\* ------------------------------------------------------------ menu screen
\* Length of the name texts, for z.string().min(2).max(100).
NameLength(text) == IF text = "" THEN 0 ELSE 3

SchemaAcceptsNoMin(form) ==
    /\ NameLength(form.name) >= 2
    /\ NameLength(form.name) <= 100
    /\ ~form.stock_quantity.nan

\* menuItemSchema.parse(formData) does not throw. The fields not modelled
\* (description, price, category, image_url) hold valid values.
SchemaAccepts(form) ==
    /\ NameLength(form.name) >= 2
    /\ NameLength(form.name) <= 100
    /\ ~form.stock_quantity.nan
    /\ form.stock_quantity.v >= 0

\* fetchMenuItems resolved without error. The rows are kept by id: the order
\* by category and name plays no part in the handlers.
FetchMenuItemsOk(m) ==
    /\ menuFetch[m] > 0
    /\ catalog' = [catalog EXCEPT ![m] = menu_items]
    /\ loading' = [loading EXCEPT ![m] = FALSE]
    /\ menuFetch' = [menuFetch EXCEPT ![m] = @ - 1]
    /\ UNCHANGED <<orderVars, invVars, storeVars, menuFormVars, menuCalls>>
    /\ toast' = "none"

FetchMenuItemsError(m) ==
    /\ menuFetch[m] > 0
    /\ toast' = "Failed to load menu items"
    /\ loading' = [loading EXCEPT ![m] = FALSE]
    /\ menuFetch' = [menuFetch EXCEPT ![m] = @ - 1]
    /\ UNCHANGED <<orderVars, invVars, storeVars, menuFormVars, menuCalls, catalog>>

\* Click on "Add Menu Item": the trigger calls onOpenChange(true).
AddMenuItem(m) ==
    /\ ~loading[m]
    /\ ~menuDialogOpen[m]
    /\ menuDialogOpen' = [menuDialogOpen EXCEPT ![m] = TRUE]
    /\ UNCHANGED <<orderVars, invVars, storeVars, catalog, loading, editingItem, formData,
                   menuCalls, menuFetch>>
    /\ toast' = "none"

\* Click on "Edit" of the card of row id. Every stored name has passed the
\* schema, so item.name is the valid name text.
handleEdit(m, id) ==
    /\ ~loading[m]
    /\ ~menuDialogOpen[m]
    /\ id \in DOMAIN catalog[m]
    /\ editingItem' = [editingItem EXCEPT ![m] =
           [id |-> id, stock_quantity |-> catalog[m][id].stock_quantity]]
    /\ formData' = [formData EXCEPT ![m] =
           [name |-> "Tea",
            stock_quantity |-> [nan |-> FALSE, v |-> catalog[m][id].stock_quantity]]]
    /\ menuDialogOpen' = [menuDialogOpen EXCEPT ![m] = TRUE]
    /\ UNCHANGED <<orderVars, invVars, storeVars, catalog, loading, menuCalls, menuFetch>>
    /\ toast' = "none"

\* The menu dialog is dismissed: onOpenChange(false), which calls resetForm.
DismissMenuDialog(m) ==
    /\ menuDialogOpen[m]
    /\ menuDialogOpen' = [menuDialogOpen EXCEPT ![m] = FALSE]
    /\ formData' = [formData EXCEPT ![m] = EmptyForm]
    /\ editingItem' = [editingItem EXCEPT ![m] = NULL]
    /\ UNCHANGED <<orderVars, invVars, storeVars, catalog, loading, menuCalls, menuFetch>>
    /\ toast' = "none"

\* Click on "Cancel" of the menu dialog.
CancelMenuDialog(m) ==
    /\ menuDialogOpen[m]
    /\ menuDialogOpen' = [menuDialogOpen EXCEPT ![m] = FALSE]
    /\ UNCHANGED <<orderVars, invVars, storeVars, catalog, loading, editingItem, formData,
                   menuCalls, menuFetch>>
    /\ toast' = "none"

TypeName(m, text) ==
    /\ menuDialogOpen[m]
    /\ formData' = [formData EXCEPT ![m].name = text]
    /\ UNCHANGED <<orderVars, invVars, storeVars, catalog, loading, editingItem,
                   menuDialogOpen, menuCalls, menuFetch>>
    /\ toast' = "none"

TypeStock(m, text) ==
    /\ menuDialogOpen[m]
    /\ formData' = [formData EXCEPT ![m].stock_quantity = ParseInt(text)]
    /\ UNCHANGED <<orderVars, invVars, storeVars, catalog, loading, editingItem,
                   menuDialogOpen, menuCalls, menuFetch>>
    /\ toast' = "none"

\* The form is submitted: handleSubmit up to its await.
handleSubmit(m) ==
    /\ menuDialogOpen[m]
    /\ UNCHANGED <<orderVars, invVars, storeVars, catalog, loading, menuFormVars, menuFetch>>
    /\ IF ~SchemaAccepts(formData[m])
       THEN /\ toast' = "Validation Error"
            /\ UNCHANGED menuCalls
       ELSE /\ Len(menuCalls[m]) < MaxPending
            /\ formData[m].stock_quantity.v <= MaxStock
            /\ menuCalls' = [menuCalls EXCEPT ![m] = Append(@,
                   [kind |-> IF IsNull(editingItem[m]) THEN "insert" ELSE "update",
                    id |-> editingItem[m].id,
                    stock_quantity |-> formData[m].stock_quantity.v,
                    st |-> "sent"])]
            /\ toast' = "none"

\* Click on the delete button of the card of row id, confirmed.
handleDelete(m, id) ==
    /\ ~loading[m]
    /\ ~menuDialogOpen[m]
    /\ id \in DOMAIN catalog[m]
    /\ Len(menuCalls[m]) < MaxPending
    /\ menuCalls' = [menuCalls EXCEPT ![m] = Append(@,
           [kind |-> "delete", id |-> id, stock_quantity |-> 0, st |-> "sent"])]
    /\ UNCHANGED <<orderVars, invVars, storeVars, catalog, loading, menuFormVars, menuFetch>>
    /\ toast' = "none"

\* .update({name, ..., stock_quantity, image_url}).eq('id', editingItem.id)
UpdateMenuItem(table, id, stock) ==
    IF id \in DOMAIN table
    THEN [table EXCEPT ![id].stock_quantity = stock]
    ELSE table

\* .insert({name, ..., stock_quantity, image_url}): is_available takes the
\* column default, which the screens do not set.
InsertMenuItem(table, id, stock, available) ==
    [i \in DOMAIN table \cup {id} |->
        IF i = id THEN [stock_quantity |-> stock, is_available |-> available]
        ELSE table[i]]

\* .delete().eq('id', id)
DeleteMenuItem(table, id) == [i \in DOMAIN table \ {id} |-> table[i]]

StoreAppliesMenuCall(m, i) ==
    /\ i \in 1..Len(menuCalls[m])
    /\ menuCalls[m][i].st = "sent"
    /\ writes < MaxWrites
    /\ writes' = writes + 1
    /\ LET call == menuCalls[m][i]
       IN CASE call.kind = "update" ->
                 /\ menu_items' = UpdateMenuItem(menu_items, call.id, call.stock_quantity)
                 /\ UNCHANGED nextId
            [] call.kind = "insert" ->
                 /\ nextId <= MaxItems
                 /\ \E available \in BOOLEAN :
                       menu_items' = InsertMenuItem(menu_items, nextId,
                                                    call.stock_quantity, available)
                 /\ nextId' = nextId + 1
            [] call.kind = "delete" ->
                 /\ menu_items' = DeleteMenuItem(menu_items, call.id)
                 /\ UNCHANGED nextId
    /\ menuCalls' = [menuCalls EXCEPT ![m][i].st = "ok"]
    /\ UNCHANGED <<orderVars, invVars, inventory_logs, catalog, loading, menuFormVars, menuFetch>>
    /\ toast' = "none"

StoreRejectsMenuCall(m, i) ==
    /\ i \in 1..Len(menuCalls[m])
    /\ menuCalls[m][i].st = "sent"
    /\ menuCalls' = [menuCalls EXCEPT ![m][i].st = "error"]
    /\ UNCHANGED <<orderVars, invVars, storeVars, catalog, loading, menuFormVars, menuFetch>>
    /\ toast' = "none"

\* handleSubmit / handleDelete after the await, no error.
MenuCallResolved(m, i) ==
    /\ i \in 1..Len(menuCalls[m])
    /\ menuCalls[m][i].st = "ok"
    /\ menuFetch[m] < MaxFetch
    /\ LET call == menuCalls[m][i]
       IN IF call.kind = "delete"
          THEN /\ toast' = "Menu item has been deleted successfully"
               /\ UNCHANGED menuFormVars
          ELSE /\ toast' = (IF call.kind = "update"
                            THEN "The menu item has been updated successfully"
                            ELSE "New menu item has been added successfully")
               /\ menuDialogOpen' = [menuDialogOpen EXCEPT ![m] = FALSE]
               /\ formData' = [formData EXCEPT ![m] = EmptyForm]
               /\ editingItem' = [editingItem EXCEPT ![m] = NULL]
    /\ menuFetch' = [menuFetch EXCEPT ![m] = @ + 1]
    /\ menuCalls' = [menuCalls EXCEPT ![m] = Remove(@, i)]
    /\ UNCHANGED <<orderVars, invVars, storeVars, catalog, loading>>

\* handleSubmit / handleDelete after the await, error thrown and caught.
MenuCallFailed(m, i) ==
    /\ i \in 1..Len(menuCalls[m])
    /\ menuCalls[m][i].st = "error"
    /\ toast' = (IF menuCalls[m][i].kind = "delete"
                 THEN "Failed to delete menu item"
                 ELSE "Failed to save menu item")
    /\ menuCalls' = [menuCalls EXCEPT ![m] = Remove(@, i)]
    /\ UNCHANGED <<orderVars, invVars, storeVars, catalog, loading, menuFormVars, menuFetch>>

\* ----------------------------------------------------------- order screen
\* The values of the status select of an order card.
Statuses == {"pending", "preparing", "ready", "delivered", "cancelled"}

\* select(...).order('created_at', { ascending: false }): the rows of the
\* table, newest first. Ids are handed out in the order of creation.
OrderRows(table) ==
    LET n == Cardinality(DOMAIN table)
    IN [k \in 1..n |-> [id |-> n + 1 - k, status |-> table[n + 1 - k].status]]

\* The description of the toast of a successful status update.
OrderUpdatedText(newStatus) == "Order status updated to " \o newStatus

\* fetchOrders up to its await: the select is sent.
StartFetchOrders(o) ==
    /\ Len(orderFetches[o]) < MaxOrderFetch
    /\ orderFetches' = [orderFetches EXCEPT ![o] = Append(@, [st |-> "sent", data |-> <<>>])]

\* The callback of the channel: a change of the orders table is notified.
OnOrdersChange(o) ==
    /\ orderEvents[o] > 0
    /\ orderEvents' = [orderEvents EXCEPT ![o] = @ - 1]
    /\ StartFetchOrders(o)
    /\ toast' = "none"
    /\ UNCHANGED <<storeVars, invVars, menuVars, orders_table, orders, ordersLoading, orderCalls>>

\* The store answers the select of the i-th fetchOrders call in flight with
\* the rows the table holds now.
StoreReadsOrders(o, i) ==
    /\ i \in 1..Len(orderFetches[o])
    /\ orderFetches[o][i].st = "sent"
    /\ orderFetches' = [orderFetches EXCEPT ![o][i] = [st |-> "read", data |-> OrderRows(orders_table)]]
    /\ toast' = "none"
    /\ UNCHANGED <<storeVars, invVars, menuVars, orders_table, orders, ordersLoading, orderCalls,
                   orderEvents>>

\* fetchOrders after its await, no error: the response of the i-th call in
\* flight has arrived, whichever calls were started before or after it.
FetchOrdersOk(o, i) ==
    /\ i \in 1..Len(orderFetches[o])
    /\ orderFetches[o][i].st = "read"
    /\ orders' = [orders EXCEPT ![o] = orderFetches[o][i].data]
    /\ ordersLoading' = [ordersLoading EXCEPT ![o] = FALSE]
    /\ orderFetches' = [orderFetches EXCEPT ![o] = Remove(@, i)]
    /\ toast' = "none"
    /\ UNCHANGED <<storeVars, invVars, menuVars, orders_table, orderCalls, orderEvents>>

\* fetchOrders after its await, error thrown and caught.
FetchOrdersError(o, i) ==
    /\ i \in 1..Len(orderFetches[o])
    /\ toast' = "Failed to load orders"
    /\ ordersLoading' = [ordersLoading EXCEPT ![o] = FALSE]
    /\ orderFetches' = [orderFetches EXCEPT ![o] = Remove(@, i)]
    /\ UNCHANGED <<storeVars, invVars, menuVars, orders_table, orders, orderCalls, orderEvents>>

\* Another value is chosen in the status select of the k-th card:
\* updateOrderStatus up to its await.
updateOrderStatus(o, k, newStatus) ==
    /\ ~ordersLoading[o]
    /\ k \in 1..Len(orders[o])
    /\ newStatus # orders[o][k].status
    /\ Len(orderCalls[o]) < MaxPending
    /\ orderCalls' = [orderCalls EXCEPT ![o] = Append(@,
           [id |-> orders[o][k].id, status |-> newStatus, st |-> "sent"])]
    /\ toast' = "none"
    /\ UNCHANGED <<storeVars, invVars, menuVars, orders_table, orders, ordersLoading, orderFetches,
                   orderEvents>>

\* update({ status }).eq('id', orderId)
UpdateOrder(table, id, newStatus) ==
    [r \in DOMAIN table |-> IF r = id THEN [table[r] EXCEPT !.status = newStatus] ELSE table[r]]

\* The store applies the update of the i-th call and notifies the change to
\* every subscribed screen.
StoreAppliesOrderUpdate(o, i) ==
    /\ i \in 1..Len(orderCalls[o])
    /\ orderCalls[o][i].st = "sent"
    /\ \A x \in OpenOrders : orderEvents[x] < MaxEvents
    /\ orders_table' = UpdateOrder(orders_table, orderCalls[o][i].id, orderCalls[o][i].status)
    /\ orderEvents' = [x \in OpenOrders |-> orderEvents[x] + 1]
    /\ orderCalls' = [orderCalls EXCEPT ![o][i].st = "ok"]
    /\ toast' = "none"
    /\ UNCHANGED <<storeVars, invVars, menuVars, orders, ordersLoading, orderFetches>>

StoreRejectsOrderUpdate(o, i) ==
    /\ i \in 1..Len(orderCalls[o])
    /\ orderCalls[o][i].st = "sent"
    /\ orderCalls' = [orderCalls EXCEPT ![o][i].st = "error"]
    /\ toast' = "none"
    /\ UNCHANGED <<storeVars, invVars, menuVars, orders_table, orders, ordersLoading, orderFetches,
                   orderEvents>>

\* updateOrderStatus after its await, no error.
OrderUpdateResolved(o, i) ==
    /\ i \in 1..Len(orderCalls[o])
    /\ orderCalls[o][i].st = "ok"
    /\ toast' = OrderUpdatedText(orderCalls[o][i].status)
    /\ StartFetchOrders(o)
    /\ orderCalls' = [orderCalls EXCEPT ![o] = Remove(@, i)]
    /\ UNCHANGED <<storeVars, invVars, menuVars, orders_table, orders, ordersLoading, orderEvents>>

\* updateOrderStatus after its await, error thrown and caught.
OrderUpdateFailed(o, i) ==
    /\ i \in 1..Len(orderCalls[o])
    /\ orderCalls[o][i].st = "error"
    /\ toast' = "Failed to update order status"
    /\ orderCalls' = [orderCalls EXCEPT ![o] = Remove(@, i)]
    /\ UNCHANGED <<storeVars, invVars, menuVars, orders_table, orders, ordersLoading, orderFetches,
                   orderEvents>>

NextInventory ==
    \/ \E s \in OpenAdmins : FetchDataOk(s)
    \/ \E s \in OpenAdmins : FetchDataError(s)
    \/ \E s \in OpenAdmins, k \in 1..MaxItems : OpenAdjust(s, k)
    \/ \E s \in OpenAdmins : DismissDialog(s)
    \/ \E s \in OpenAdmins : CancelDialog(s)
    \/ \E s \in OpenAdmins, text \in AmountTexts : TypeAmount(s, text)
    \/ \E s \in OpenAdmins, text \in ReasonTexts : TypeReason(s, text)
    \/ \E s \in OpenAdmins : handleAdjustment(s)
    \/ \E s \in OpenAdmins, i \in 1..MaxPending : StoreAppliesAdjustment(s, i)
    \/ \E s \in OpenAdmins, i \in 1..MaxPending : StoreRejectsAdjustment(s, i)
    \/ \E s \in OpenAdmins, i \in 1..MaxPending : AdjustmentResolved(s, i)
    \/ \E s \in OpenAdmins, i \in 1..MaxPending : AdjustmentFailed(s, i)

NextMenu ==
    \/ \E m \in OpenMenus : FetchMenuItemsOk(m)
    \/ \E m \in OpenMenus : FetchMenuItemsError(m)
    \/ \E m \in OpenMenus : AddMenuItem(m)
    \/ \E m \in OpenMenus, id \in 1..MaxItems : handleEdit(m, id)
    \/ \E m \in OpenMenus : DismissMenuDialog(m)
    \/ \E m \in OpenMenus : CancelMenuDialog(m)
    \/ \E m \in OpenMenus, text \in NameTexts : TypeName(m, text)
    \/ \E m \in OpenMenus, text \in StockTexts : TypeStock(m, text)
    \/ \E m \in OpenMenus : handleSubmit(m)
    \/ \E m \in OpenMenus, id \in 1..MaxItems : handleDelete(m, id)
    \/ \E m \in OpenMenus, i \in 1..MaxPending : StoreAppliesMenuCall(m, i)
    \/ \E m \in OpenMenus, i \in 1..MaxPending : StoreRejectsMenuCall(m, i)
    \/ \E m \in OpenMenus, i \in 1..MaxPending : MenuCallResolved(m, i)
    \/ \E m \in OpenMenus, i \in 1..MaxPending : MenuCallFailed(m, i)

InitMenuOnly ==
    /\ \E stock \in InitStocks : InitStore(stock)
    /\ InitInventory({})
    /\ InitMenu({"m1"})
    /\ InitOrders({})

SpecMenu == InitMenuOnly /\ [][NextMenu]_vars

\* Two administrators on the inventory screen, with the amounts of the race.
RaceAmountTexts == {"-5", "-3"}
RaceReasonTexts == {"Restocking"}

NextRace ==
    \/ \E s \in OpenAdmins : FetchDataOk(s)
    \/ \E s \in OpenAdmins, k \in 1..MaxItems : OpenAdjust(s, k)
    \/ \E s \in OpenAdmins, text \in RaceAmountTexts : TypeAmount(s, text)
    \/ \E s \in OpenAdmins, text \in RaceReasonTexts : TypeReason(s, text)
    \/ \E s \in OpenAdmins : handleAdjustment(s)
    \/ \E s \in OpenAdmins, i \in 1..MaxPending : StoreAppliesAdjustment(s, i)
    \/ \E s \in OpenAdmins, i \in 1..MaxPending : AdjustmentResolved(s, i)

InitRace ==
    /\ InitStore(10)
    /\ InitInventory({"a1", "a2"})
    /\ InitMenu({})
    /\ InitOrders({})

SpecRace == InitRace /\ [][NextRace]_vars

\* Two administrators on the inventory screen and one on the menu screen, who
\* edits the rows there are.
AllStockTexts == {"-1", "3"}

NextAll ==
    \/ NextRace
    \/ \E m \in OpenMenus : FetchMenuItemsOk(m)
    \/ \E m \in OpenMenus, id \in 1..MaxItems : handleEdit(m, id)
    \/ \E m \in OpenMenus, text \in AllStockTexts : TypeStock(m, text)
    \/ \E m \in OpenMenus : handleSubmit(m)
    \/ \E m \in OpenMenus, i \in 1..MaxPending : StoreAppliesMenuCall(m, i)
    \/ \E m \in OpenMenus, i \in 1..MaxPending : MenuCallResolved(m, i)

InitAll ==
    /\ InitStore(3)
    /\ InitInventory({"a1", "a2"})
    /\ InitMenu({"m1"})
    /\ InitOrders({})

SpecAll == InitAll /\ [][NextAll]_vars

\* The inventory screen of one administrator right after a load, for every
\* item list of at most MaxListLen items with the stocks of ListStocks.
ListStocks == {0, 3, 10, 11, 15}

ItemLists ==
    UNION {[1..n -> ListStocks] : n \in 0..MaxListLen}

InitLowStock ==
    \E stocks \in ItemLists :
        /\ menu_items = [i \in DOMAIN stocks |->
               [stock_quantity |-> stocks[i], is_available |-> stocks[i] > 0]]
        /\ nextId = Len(stocks) + 1
        /\ writes = 0
        /\ inventory_logs = <<>>
        /\ toast = "none"
        /\ InitMenu({})
        /\ InitOrders({})
        /\ menuItems = [s \in {"a1"} |->
               [i \in DOMAIN stocks |-> [id |-> i, stock_quantity |-> stocks[i]]]]
        /\ inventoryLogs = [s \in {"a1"} |-> <<>>]
        /\ selectedItem = [s \in {"a1"} |-> NULL]
        /\ adjustmentAmount = [s \in {"a1"} |-> 0]
        /\ adjustmentReason = [s \in {"a1"} |-> ""]
        /\ isDialogOpen = [s \in {"a1"} |-> FALSE]
        /\ adjCalls = [s \in {"a1"} |-> <<>>]
        /\ invFetch = [s \in {"a1"} |-> 0]
        /\ lowStockItems = <<>>

NextLowStock == \E s \in OpenAdmins : Render(s)

SpecLowStock == InitLowStock /\ [][NextLowStock]_vars

\* The order screen when every request succeeds.
NextOrdersOk ==
    \/ \E o \in OpenOrders : OnOrdersChange(o)
    \/ \E o \in OpenOrders : \E i \in 1..MaxOrderFetch : StoreReadsOrders(o, i)
    \/ \E o \in OpenOrders : \E i \in 1..MaxOrderFetch : FetchOrdersOk(o, i)
    \/ \E o \in OpenOrders : \E k \in 1..MaxItems : \E newStatus \in Statuses :
            updateOrderStatus(o, k, newStatus)
    \/ \E o \in OpenOrders : \E i \in 1..MaxPending : StoreAppliesOrderUpdate(o, i)
    \/ \E o \in OpenOrders : \E i \in 1..MaxPending : OrderUpdateResolved(o, i)

\* The order screen with every outcome of a request.
NextOrders ==
    \/ NextOrdersOk
    \/ \E o \in OpenOrders : \E i \in 1..MaxOrderFetch : FetchOrdersError(o, i)
    \/ \E o \in OpenOrders : \E i \in 1..MaxPending : StoreRejectsOrderUpdate(o, i)
    \/ \E o \in OpenOrders : \E i \in 1..MaxPending : OrderUpdateFailed(o, i)

InitOrdersOnly ==
    /\ \E stock \in InitStocks : InitStore(stock)
    /\ InitInventory({})
    /\ InitMenu({})
    /\ InitOrders({"o1"})

SpecOrders == InitOrdersOnly /\ [][NextOrdersOk]_vars

SpecOrdersAll == InitOrdersOnly /\ [][NextOrders]_vars

Next == NextInventory

Spec == Init /\ [][Next]_vars

\* ------------------------------------------------------------------ claims
\* The ledger entry an adjustment call is to leave in inventory_logs.
LedgerEntry(call) ==
    [menu_item_id |-> call.item.id, previous_stock |-> call.item.stock_quantity,
     new_stock |-> call.newStock, change_amount |-> call.amount, reason |-> call.reason]

\* C1: every adjustment whose new stock is not negative and whose reason is
\* not empty is applied: the stored stock_quantity becomes
\* item.stock_quantity + delta and exactly one matching entry is appended to
\* inventory_logs.
C1_AdjustmentUpdatesStockAndLedger ==
    [][\A s \in Admins, i \in 1..MaxPending :
          (s \in OpenAdmins /\ StoreAppliesAdjustment(s, i)
              /\ adjCalls[s][i].item.id \in DOMAIN menu_items)
          => /\ menu_items'[adjCalls[s][i].item.id].stock_quantity
                    = adjCalls[s][i].item.stock_quantity + adjCalls[s][i].amount
             /\ inventory_logs' = Append(inventory_logs, LedgerEntry(adjCalls[s][i]))]_vars

\* C2: in every reachable state, an adjustment whose stock update the store
\* has applied has its entry in inventory_logs, and every entry of
\* inventory_logs records the stock an adjustment wrote.
C2_StockAndLedgerInStep ==
    /\ \A s \in OpenAdmins : \A i \in 1..Len(adjCalls[s]) :
          (adjCalls[s][i].st = "ok" /\ adjCalls[s][i].item.id \in DOMAIN menu_items)
          => \E k \in 1..Len(inventory_logs) :
                inventory_logs[k] = LedgerEntry(adjCalls[s][i])
    /\ Len(inventory_logs) <= writes

\* C3: when two administrators have both read the item at stock 10 and their
\* adjustments of -5 and -3 are in progress together, once the store has
\* applied both the stored stock is 2 (not 5 or 7) and inventory_logs holds
\* two entries.
RaceApplied ==
    /\ OpenAdmins = {"a1", "a2"}
    /\ \A s \in OpenAdmins :
          /\ Len(adjCalls[s]) = 1
          /\ adjCalls[s][1].st = "ok"
          /\ adjCalls[s][1].item = [id |-> 1, stock_quantity |-> 10]
    /\ {adjCalls[s][1].amount : s \in OpenAdmins} = {-5, -3}

C3_ConcurrentAdjustmentsAddUp ==
    RaceApplied =>
        /\ menu_items[1].stock_quantity = 2
        /\ menu_items[1].stock_quantity \notin {5, 7}
        /\ Len(inventory_logs) = 2

\* C4: an adjustment with a non-empty reason whose new stock would be
\* negative raises the negative-stock notification, sends no request and
\* leaves menu_items and inventory_logs as they are.
C4_NegativeStockRejected ==
    [][\A s \in Admins :
          (s \in OpenAdmins /\ handleAdjustment(s)
              /\ ~IsNull(selectedItem[s])
              /\ adjustmentReason[s] # ""
              /\ selectedItem[s].stock_quantity + adjustmentAmount[s] < 0)
          => /\ toast' = "Stock quantity cannot be negative"
             /\ adjCalls' = adjCalls
             /\ menu_items' = menu_items
             /\ inventory_logs' = inventory_logs]_vars

\* A negative adjustment has just been refused and no request is in flight.
C4_Witness ==
    /\ toast = "Stock quantity cannot be negative"
    /\ \E s \in OpenAdmins :
          /\ ~IsNull(selectedItem[s])
          /\ adjustmentReason[s] # ""
          /\ selectedItem[s].stock_quantity + adjustmentAmount[s] < 0
          /\ adjCalls[s] = <<>>
          /\ menu_items[selectedItem[s].id].stock_quantity = selectedItem[s].stock_quantity

\* C5: an adjustment whose reason is empty once trimmed raises the
\* missing-reason notification, sends no request and leaves menu_items and
\* inventory_logs as they are.
C5_BlankReasonRejected ==
    [][\A s \in Admins :
          (s \in OpenAdmins /\ handleAdjustment(s) /\ Trim(adjustmentReason[s]) = "")
          => /\ toast' = "Please provide a reason for the adjustment"
             /\ adjCalls' = adjCalls
             /\ menu_items' = menu_items
             /\ inventory_logs' = inventory_logs]_vars

C7_AvailabilityFollowsNewStock ==
    [][\A s \in Admins, i \in 1..MaxPending :
          (s \in OpenAdmins /\ StoreAppliesAdjustment(s, i)
              /\ adjCalls[s][i].item.id \in DOMAIN menu_items)
          => LET call == adjCalls[s][i]
                 row == menu_items'[call.item.id]
             IN /\ row.stock_quantity = call.item.stock_quantity + call.amount
                /\ row.is_available = (row.stock_quantity > 0)]_vars

\* An adjustment down to stock 0 has been applied and the item is unavailable.
C7_Witness ==
    \E s \in OpenAdmins :
        /\ Len(adjCalls[s]) = 1
        /\ adjCalls[s][1].st = "ok"
        /\ adjCalls[s][1].newStock = 0
        /\ adjCalls[s][1].amount < 0
        /\ menu_items[adjCalls[s][1].item.id] = [stock_quantity |-> 0, is_available |-> FALSE]

\* C8: in every reachable state, every row of menu_items has is_available
\* true exactly when its stock_quantity is above 0.
C8_AvailableIffInStock ==
    \A id \in DOMAIN menu_items :
        menu_items[id].is_available = (menu_items[id].stock_quantity > 0)

\* The places of `list` whose item is at or under the threshold.
LowPlaces(list) == {k \in 1..Len(list) : list[k].stock_quantity <= 10}

\* The n-th smallest element of a set of numbers.
Nth(places, n) == CHOOSE k \in places : Cardinality({j \in places : j <= k}) = n

\* C9: rendering computes lowStockItems as exactly the items of menuItems
\* with stock_quantity <= 10, in the order of menuItems, and changes nothing
\* else.
C9_LowStockIsOrderedSelection ==
    [][\A s \in Admins :
          (s \in OpenAdmins /\ Render(s))
          => /\ Len(lowStockItems'[s]) = Cardinality(LowPlaces(menuItems[s]))
             /\ \A n \in 1..Len(lowStockItems'[s]) :
                    lowStockItems'[s][n] = menuItems[s][Nth(LowPlaces(menuItems[s]), n)]
             /\ UNCHANGED <<storeVars, menuVars, orderVars, menuItems, inventoryLogs,
                            formVars, adjCalls, invFetch>>]_vars

\* The list with stocks 3, 15, 10, 0 has been rendered to 3, 10, 0.
C9_Witness ==
    /\ "a1" \in DOMAIN lowStockItems
    /\ Len(menuItems["a1"]) = 4
    /\ [k \in 1..4 |-> menuItems["a1"][k].stock_quantity] = <<3, 15, 10, 0>>
    /\ lowStockItems["a1"] = <<menuItems["a1"][1], menuItems["a1"][3], menuItems["a1"][4]>>

\* C10: the stock_quantity of an existing row of menu_items changes only in
\* a step in which the store applies the update of handleAdjustment; no
\* step of the menu screen changes it.
C10_OnlyAdjustmentChangesStock ==
    [][\A id \in DOMAIN menu_items \cap DOMAIN menu_items' :
          menu_items'[id].stock_quantity # menu_items[id].stock_quantity
          => \E s \in OpenAdmins, i \in 1..MaxPending : StoreAppliesAdjustment(s, i)]_vars

\* C11: when the store rejects the stock update, the user gets the failure
\* notification and the screen keeps what it had: the displayed items and
\* stocks stay as they were read from the store, the stored stock is not
\* changed, and dialog, selected item, amount and reason are not reset.
C11_RejectedUpdateKeepsScreen ==
    [][\A s \in OpenAdmins : \A i \in 1..Len(adjCalls[s]) :
          /\ StoreRejectsAdjustment(s, i)
                => /\ menu_items' = menu_items
                   /\ menuItems' = menuItems
                   /\ formVars' = formVars
          /\ AdjustmentFailed(s, i)
                => /\ toast' = "Failed to update stock"
                   /\ menu_items' = menu_items
                   /\ menuItems' = menuItems
                   /\ inventoryLogs' = inventoryLogs
                   /\ formVars' = formVars]_vars

\* The failure has just been notified and the dialog still holds the item,
\* the amount and the reason of the rejected adjustment.
C11_Witness ==
    \E s \in OpenAdmins :
        /\ toast = "Failed to update stock"
        /\ isDialogOpen[s]
        /\ ~IsNull(selectedItem[s])
        /\ adjustmentAmount[s] # 0
        /\ adjustmentReason[s] = "Restocking"
        /\ menuItems[s] \in OrderedByStock(menu_items)

\* C12: the validation order is fixed and the first failure wins: an Update
\* Stock click with an empty reason and stock + amount below zero raises the
\* missing-reason error, never the negative-stock error, and sends nothing.
C12_MissingReasonWinsOverNegativeStock ==
    [][\A s \in Admins :
          (s \in OpenAdmins /\ handleAdjustment(s)
              /\ ~IsNull(selectedItem[s])
              /\ adjustmentReason[s] = ""
              /\ selectedItem[s].stock_quantity + adjustmentAmount[s] < 0)
          => /\ toast' = "Please provide a reason for the adjustment"
             /\ toast' # "Stock quantity cannot be negative"
             /\ adjCalls' = adjCalls
             /\ menu_items' = menu_items]_vars

\* The missing-reason error has just been raised for an adjustment that
\* fails both validations.
C12_Witness ==
    \E s \in OpenAdmins :
        /\ toast = "Please provide a reason for the adjustment"
        /\ DialogShown(s)
        /\ adjustmentReason[s] = ""
        /\ selectedItem[s].stock_quantity + adjustmentAmount[s] < 0

\* C13: whenever the stock-adjustment dialog is opened for an item, the amount
\* is 0 and the reason is empty, whatever was opened, typed, cancelled,
\* dismissed or submitted before.
C13_DialogOpensClean ==
    [][\A s \in Admins : \A k \in 1..MaxItems :
          (s \in OpenAdmins /\ OpenAdjust(s, k))
          => /\ adjustmentAmount'[s] = 0
             /\ adjustmentReason'[s] = ""]_vars

\* C14: editingItem is null whenever the menu dialog is opened by "Add Menu
\* Item", so a valid form submitted from that dialog inserts a row and never
\* updates one.
C14_AddDialogInserts ==
    [][\A m \in OpenMenus :
          AddMenuItem(m) => IsNull(editingItem'[m])]_vars

\* C15: once the orders table has stopped changing and every fetchOrders
\* call has completed successfully (no call, no change notification and no
\* status update is outstanding), the displayed order list is the list of
\* the table: the response of an earlier call never overwrites the result of
\* a later one.
C15_SettledScreenShowsTable ==
    \A o \in OpenOrders :
        (/\ orderFetches[o] = <<>>
         /\ orderEvents[o] = 0
         /\ orderCalls[o] = <<>>)
        => orders[o] = OrderRows(orders_table)

====
